---- MODULE Spec2Model ----
(***************************************************************************)
(* Model of src/item.rs: the items relation, the AUTOINCREMENT id used as  *)
(* a version marker, the process-wide read/write lock, and the four        *)
(* operations of SyncItem (items_of_user, find_item_by_uuid,               *)
(* get_current_max_id, items_insert) run by concurrent threads.            *)
(***************************************************************************)
EXTENDS Integers, Sequences, FiniteSets, TLC

\* ------------------------------------------------------------------ bounds
\* Upsert calls that may be started in one behaviour of concurrent threads
\* (caps the id counter).
MaxCalls == 2
\* Upsert calls that may be started in one behaviour of a single caller.
MaxSeqCalls == 3
\* Upsert calls that may be started in one behaviour of the fair threads.
MaxLiveCalls == 2
\* Largest row limit a caller passes to items_of_user.
MaxLimit == 2

Threads == {"t1", "t2"}
Owners == {1, 2}
Uuids == {"a", "b"}

\* ------------------------------------------------------------ Option<T>
None == <<>>
Some(x) == <<x>>
IsSome(o) == o # None
Unwrap(o) == o[1]

Contents == {Some("v1")}
EncKeys == {Some("k1")}
ContentTypes == {"Note"}
CreatedAts == {"c0"}
UpdatedAts == {Some("u0")}

\* struct SyncItem: what a client sends.
SyncItem ==
    [uuid : Uuids, content : Contents, content_type : ContentTypes,
     enc_item_key : EncKeys, deleted : BOOLEAN,
     created_at : CreatedAts, updated_at : UpdatedAts]

Markers == 0 .. MaxSeqCalls
OptMarkers == {None} \cup {Some(m) : m \in Markers}
OptLimits == {None} \cup {Some(n) : n \in 0 .. MaxLimit}

\* (since_id, max_id, limit) as concurrent callers of items_of_user pass
\* them: the whole list, and one bounded page.
PageArgs == {<<None, None, None>>, <<Some(1), Some(2), Some(1)>>}
\* (since_id, max_id, limit) as a single caller passes them: any of them.
AnyArgs == OptMarkers \X OptMarkers \X OptLimits

\* ------------------------------------------------------ relational store
\* rows with uuid = i and owner = u
Matching(db, u, i) == {r \in db : r.uuid = i /\ r.owner = u}

MaxOf(S) == CHOOSE m \in S : \A n \in S : n <= m

RowIds(db) == {r.id : r \in db}

\* AUTOINCREMENT: one more than the largest id the table ever assigned.
\* (variant: a plain rowid, one more than the largest id still stored)
NewIdReuse(db, last) == IF db = {} THEN 1 ELSE MaxOf(RowIds(db)) + 1
NewId(db, last) == last + 1

\* The row items_insert hands to insert_into: tombstones lose their payload.
\* (variant: the payload is stored as sent)
InsertItemKeep(u, it) ==
    [owner |-> u, uuid |-> it.uuid,
     content |-> it.content,
     content_type |-> it.content_type,
     enc_item_key |-> it.enc_item_key,
     deleted |-> it.deleted,
     created_at |-> it.created_at, updated_at |-> it.updated_at]
InsertItem(u, it) ==
    [owner |-> u, uuid |-> it.uuid,
     content |-> IF it.deleted THEN None ELSE it.content,
     content_type |-> it.content_type,
     enc_item_key |-> IF it.deleted THEN None ELSE it.enc_item_key,
     deleted |-> it.deleted,
     created_at |-> it.created_at, updated_at |-> it.updated_at]

\* struct Item: the stored row, the InsertItem plus the assigned id.
Item(newid, ins) ==
    [id |-> newid, owner |-> ins.owner, uuid |-> ins.uuid,
     content |-> ins.content, content_type |-> ins.content_type,
     enc_item_key |-> ins.enc_item_key, deleted |-> ins.deleted,
     created_at |-> ins.created_at, updated_at |-> ins.updated_at]

\* diesel::delete(items.filter(uuid.eq(..).and(owner.eq(..))))
\* (variant: the owner filter is missing, every row of the uuid goes)
DeleteByUuid(db, u, i) == {r \in db : r.uuid # i}
\* (variant: the delete is skipped)
DeleteNothing(db, u, i) == db
DeleteMatching(db, u, i) == db \ Matching(db, u, i)

\* ------------------------------------------------------------ the query
\* ORDER BY id ASC over a set of rows (ids are the primary key).
RECURSIVE OrderByIdAsc(_)
OrderByIdAsc(S) ==
    IF S = {} THEN <<>>
    ELSE LET lo == CHOOSE r \in S : \A q \in S : r.id <= q.id
         IN <<lo>> \o OrderByIdAsc(S \ {lo})

\* (variant: ORDER BY id DESC)
RECURSIVE OrderByIdDesc(_)
OrderByIdDesc(S) ==
    IF S = {} THEN <<>>
    ELSE LET hi == CHOOSE r \in S : \A q \in S : r.id >= q.id
         IN <<hi>> \o OrderByIdDesc(S \ {hi})

\* LIMIT n of an ordered result
Take(s, n) == IF Len(s) <= n THEN s ELSE SubSeq(s, 1, n)

\* The boxed statement items_of_user builds, one clause at a time.
BoxedQuery(u) == [owner |-> u, limit |-> None, gt |-> None, le |-> None]
WithLimit(stmt, limit) ==
    IF IsSome(limit) THEN [stmt EXCEPT !.limit = limit] ELSE stmt
WithSince(stmt, since_id) ==
    IF IsSome(since_id) THEN [stmt EXCEPT !.gt = since_id] ELSE stmt
\* (variant: id.lt(max_id))
WithMaxExclusive(stmt, max_id) ==
    IF IsSome(max_id) THEN [stmt EXCEPT !.le = Some(Unwrap(max_id) - 1)] ELSE stmt
WithMax(stmt, max_id) ==
    IF IsSome(max_id) THEN [stmt EXCEPT !.le = max_id] ELSE stmt

\* WHERE clause of the built statement
\* (variant: id.ge(since_id))
WhereGe(stmt, r) ==
    /\ r.owner = stmt.owner
    /\ IsSome(stmt.gt) => r.id >= Unwrap(stmt.gt)
    /\ IsSome(stmt.le) => r.id <= Unwrap(stmt.le)
Where(stmt, r) ==
    /\ r.owner = stmt.owner
    /\ IsSome(stmt.gt) => r.id > Unwrap(stmt.gt)
    /\ IsSome(stmt.le) => r.id <= Unwrap(stmt.le)

\* load: SQL evaluates WHERE, then ORDER BY, then LIMIT, whatever the order
\* in which the builder received the clauses.
\* (variant: rows come back in descending order)
LoadUnordered(db, stmt) ==
    LET hits == OrderByIdDesc({r \in db : Where(stmt, r)})
    IN IF IsSome(stmt.limit) THEN Take(hits, Unwrap(stmt.limit)) ELSE hits
Load(db, stmt) ==
    LET hits == OrderByIdAsc({r \in db : Where(stmt, r)})
    IN IF IsSome(stmt.limit) THEN Take(hits, Unwrap(stmt.limit)) ELSE hits

\* SyncItem::items_of_user, the query it runs under the read lock
ItemsOfUser(db, u, since_id, max_id, limit) ==
    Load(db, WithMax(WithSince(WithLimit(BoxedQuery(u), limit), since_id), max_id))

\* SyncItem::get_current_max_id: SELECT max(id) WHERE owner = u
\* (variant: the owner filter is missing)
GetCurrentMaxIdAnyOwner(db, u) ==
    IF db = {} THEN None ELSE Some(MaxOf(RowIds(db)))
GetCurrentMaxId(db, u) ==
    LET mine == {r \in db : r.owner = u}
    IN IF mine = {} THEN None ELSE Some(MaxOf(RowIds(mine)))

\* SyncItem::find_item_by_uuid: .first() of an unordered query; with several
\* matching rows the engine may hand back any of them.
\* (variant: the owner filter is missing, the uuid alone selects)
FindItemByUuidAnyOwner(db, u, i) == {r \in db : r.uuid = i}
FindItemByUuid(db, u, i) == Matching(db, u, i)


\* ------------------------------------------------------------ the state
VARIABLES
    rows,       \* the items relation
    lastId,     \* AUTOINCREMENT bookkeeping: largest id ever assigned
    readers,    \* threads holding the lock in read mode
    writer,     \* the thread holding the lock in write mode, if any
    pc,         \* where each thread stands in its call
    call,       \* the operation and arguments of each thread's running call
    orig,       \* items_insert: the rows its first query loaded
    res,        \* how each thread's last call ended: Ok(..) or Err(..)
    calls,      \* upsert calls started so far
    mine,       \* history: the row each thread's running upsert inserted
    assigned,   \* history: every id ever assigned
    snap,       \* history: the relation when the current writer got the lock
    returned    \* history: the id the last successful items_insert returned

vars == <<rows, lastId, readers, writer, pc, call, orig, res, calls,
          mine, assigned, snap, returned>>

NoCall == [op |-> "none"]
NoRes == [tag |-> "none"]
\* Ok(_): the value is the one the call's query computes from the relation
Ok == [tag |-> "Ok"]
\* ItemOpError("Database error")
Err == [tag |-> "Err", val |-> "Database error"]

Init ==
    /\ rows = {}
    /\ lastId = 0
    /\ readers = {}
    /\ writer = None
    /\ pc = [t \in Threads |-> "idle"]
    /\ call = [t \in Threads |-> NoCall]
    /\ orig = [t \in Threads |-> {}]
    /\ res = [t \in Threads |-> NoRes]
    /\ calls = 0
    /\ mine = [t \in Threads |-> None]
    /\ assigned = {}
    /\ snap = {}
    /\ returned = 0

\* ------------------------------------------------------------- the lock
\* lock_db_read!(): shared mode, granted while no writer holds the lock.
CanRead == writer = None
\* lock_db_write!(): exclusive mode, granted while nobody holds the lock.
CanWrite == writer = None /\ readers = {}

ReadLockPcs == {"list_lock", "find_lock", "max_lock", "ins_lock", "ins_find_lock"}
AfterLock(p) ==
    CASE p = "list_lock" -> "list_query"
      [] p = "find_lock" -> "find_query"
      [] p = "max_lock" -> "max_query"
      [] p = "ins_lock" -> "ins_load"
      [] p = "ins_find_lock" -> "ins_find"

\* A thread blocked in lock_db_read!() is granted read mode.
LockDbRead(t) ==
    /\ pc[t] \in ReadLockPcs
    /\ CanRead
    /\ readers' = readers \cup {t}
    /\ pc' = [pc EXCEPT ![t] = AfterLock(pc[t])]
    /\ UNCHANGED <<rows, lastId, writer, call, orig, res, calls, mine,
                   assigned, snap, returned>>

\* A thread enters one of the four operations.
Enter(t, c, p) ==
    /\ pc[t] = "idle"
    /\ call' = [call EXCEPT ![t] = c]
    /\ pc' = [pc EXCEPT ![t] = p]
    /\ res' = [res EXCEPT ![t] = NoRes]

\* The calling thread returns r; whatever guard it holds is dropped.
Return(t, r) ==
    /\ readers' = readers \ {t}
    /\ writer' = IF writer = Some(t) THEN None ELSE writer
    /\ snap' = IF writer = Some(t) THEN {} ELSE snap
    /\ res' = [res EXCEPT ![t] = r]
    /\ call' = [call EXCEPT ![t] = NoCall]
    /\ orig' = [orig EXCEPT ![t] = {}]
    /\ mine' = [mine EXCEPT ![t] = None]
    /\ pc' = [pc EXCEPT ![t] = "idle"]

\* ------------------------------------------------------- items_of_user
CallItemsOfUser(t, args) ==
    /\ \E u \in Owners, a \in args :
         Enter(t, [op |-> "list", owner |-> u, since_id |-> a[1],
                   max_id |-> a[2], limit |-> a[3]], "list_lock")
    /\ UNCHANGED <<rows, lastId, readers, writer, orig, calls, mine,
                   assigned, snap, returned>>

\* What the running items_of_user of thread t loads.
ItemsOfUserRows(t) ==
    ItemsOfUser(rows, call[t].owner, call[t].since_id, call[t].max_id,
                call[t].limit)

ItemsOfUserLoad(t) ==
    /\ pc[t] = "list_query"
    /\ Return(t, Ok)
    /\ UNCHANGED <<rows, lastId, calls, assigned, returned>>

\* ---------------------------------------------------- find_item_by_uuid
CallFindItemByUuid(t) ==
    /\ \E u \in Owners, i \in Uuids :
         Enter(t, [op |-> "find", owner |-> u, uuid |-> i], "find_lock")
    /\ UNCHANGED <<rows, lastId, readers, writer, orig, calls, mine,
                   assigned, snap, returned>>

\* .first() answers Err(NotFound) on no row; map_err turns it into the
\* same "Database error" as any other failure.
FindItemByUuidFirst(t) ==
    /\ pc[t] = "find_query"
    /\ LET hits == FindItemByUuid(rows, call[t].owner, call[t].uuid)
       IN IF hits = {} THEN Return(t, Err)
          ELSE Return(t, Ok)
    /\ UNCHANGED <<rows, lastId, calls, assigned, returned>>

\* --------------------------------------------------- get_current_max_id
CallGetCurrentMaxId(t) ==
    /\ \E u \in Owners : Enter(t, [op |-> "max", owner |-> u], "max_lock")
    /\ UNCHANGED <<rows, lastId, readers, writer, orig, calls, mine,
                   assigned, snap, returned>>

GetCurrentMaxIdFirst(t) ==
    /\ pc[t] = "max_query"
    /\ Return(t, Ok)
    /\ UNCHANGED <<rows, lastId, calls, assigned, returned>>

\* A query under read mode fails: .map_err(|_| "Database error".into())
QueryFault(t) ==
    /\ pc[t] \in {"list_query", "find_query", "max_query", "ins_load", "ins_find"}
    /\ Return(t, Err)
    /\ UNCHANGED <<rows, lastId, calls, assigned, returned>>

\* --------------------------------------------------------- items_insert
CallItemsInsert(t, budget) ==
    /\ calls < budget
    /\ calls' = calls + 1
    /\ \E u \in Owners, it \in SyncItem :
         Enter(t, [op |-> "insert", owner |-> u, it |-> it], "ins_lock")
    /\ UNCHANGED <<rows, lastId, readers, writer, orig, mine, assigned,
                   snap, returned>>

\* let orig = lock_db_read!().and_then(.. load ..)?;  the guard lives only
\* for the closure.
ItemsInsertLoadOrig(t) ==
    /\ pc[t] = "ins_load"
    /\ orig' = [orig EXCEPT ![t] = Matching(rows, call[t].owner, call[t].it.uuid)]
    /\ readers' = readers \ {t}
    /\ pc' = [pc EXCEPT ![t] = "ins_wlock"]
    /\ UNCHANGED <<rows, lastId, writer, call, res, calls, mine,
                   assigned, snap, returned>>

\* let _lock = lock_db_write!()?;
ItemsInsertLockWrite(t) ==
    /\ pc[t] = "ins_wlock"
    /\ CanWrite
    /\ writer' = Some(t)
    /\ snap' = rows
    /\ pc' = [pc EXCEPT ![t] = "ins_delete"]
    /\ UNCHANGED <<rows, lastId, readers, call, orig, res, calls, mine,
                   assigned, returned>>

\* (variant: the write lock is given up once the delete is done)
ItemsInsertDeleteUnlock(t) ==
    /\ pc[t] = "ins_delete"
    /\ rows' = IF orig[t] # {}
                 THEN DeleteMatching(rows, call[t].owner, call[t].it.uuid)
                 ELSE rows
    /\ writer' = None
    /\ pc' = [pc EXCEPT ![t] = "ins_insert"]
    /\ UNCHANGED <<lastId, readers, call, orig, res, calls, mine,
                   assigned, snap, returned>>

\* if !orig.is_empty() { diesel::delete(..).execute(db)?; }
ItemsInsertDelete(t) ==
    /\ pc[t] = "ins_delete"
    /\ rows' = IF orig[t] # {}
                 THEN DeleteMatching(rows, call[t].owner, call[t].it.uuid)
                 ELSE rows
    /\ pc' = [pc EXCEPT ![t] = "ins_insert"]
    /\ UNCHANGED <<lastId, readers, writer, call, orig, res, calls, mine,
                   assigned, snap, returned>>

\* (variant: the early return leaves the write lock taken)
ItemsInsertDeleteFaultKeepLock(t) ==
    /\ pc[t] = "ins_delete"
    /\ orig[t] # {}
    /\ res' = [res EXCEPT ![t] = Err]
    /\ call' = [call EXCEPT ![t] = NoCall]
    /\ orig' = [orig EXCEPT ![t] = {}]
    /\ mine' = [mine EXCEPT ![t] = None]
    /\ pc' = [pc EXCEPT ![t] = "idle"]
    /\ UNCHANGED <<rows, lastId, readers, writer, calls, assigned, snap,
                   returned>>

\* The delete fails: `?` returns the error and _lock is dropped.
ItemsInsertDeleteFault(t) ==
    /\ pc[t] = "ins_delete"
    /\ orig[t] # {}
    /\ Return(t, Err)
    /\ UNCHANGED <<rows, lastId, calls, assigned, returned>>

\* (variant: without the drop(_lock), the write lock is still held when
\* find_item_by_uuid asks for the read lock)
ItemsInsertInsertKeepLock(t) ==
    /\ pc[t] = "ins_insert"
    /\ LET new == Item(NewId(rows, lastId), InsertItem(call[t].owner, call[t].it))
       IN /\ rows' = rows \cup {new}
          /\ lastId' = new.id
          /\ assigned' = assigned \cup {new.id}
          /\ mine' = [mine EXCEPT ![t] = Some(new)]
    /\ pc' = [pc EXCEPT ![t] = "ins_find_lock"]
    /\ UNCHANGED <<readers, writer, call, orig, res, calls, snap, returned>>

\* diesel::insert_into(..).values(InsertItem {..}).execute(db)?; drop(_lock)
ItemsInsertInsert(t) ==
    /\ pc[t] = "ins_insert"
    /\ LET new == Item(NewId(rows, lastId), InsertItem(call[t].owner, call[t].it))
       IN /\ rows' = rows \cup {new}
          /\ lastId' = new.id
          /\ assigned' = assigned \cup {new.id}
          /\ mine' = [mine EXCEPT ![t] = Some(new)]
    /\ writer' = None
    /\ pc' = [pc EXCEPT ![t] = "ins_find_lock"]
    /\ UNCHANGED <<readers, call, orig, res, calls, snap, returned>>

\* (variant: delete and insert run in one transaction, a failing insert
\* brings the deleted row back)
ItemsInsertInsertFaultRollback(t) ==
    /\ pc[t] = "ins_insert"
    /\ Return(t, Err)
    /\ rows' = snap
    /\ UNCHANGED <<lastId, calls, assigned, returned>>

\* The insert fails: `?` returns the error and _lock is dropped; the delete
\* stays done.
ItemsInsertInsertFault(t) ==
    /\ pc[t] = "ins_insert"
    /\ Return(t, Err)
    /\ UNCHANGED <<rows, lastId, calls, assigned, returned>>

\* Self::find_item_by_uuid(db, u, &it.uuid).map(|i| i.id)
ItemsInsertFind(t) ==
    /\ pc[t] = "ins_find"
    /\ LET hits == FindItemByUuid(rows, call[t].owner, call[t].it.uuid)
       IN IF hits = {}
            THEN Return(t, Err) /\ returned' = returned
            ELSE \E r \in hits :
                   /\ Return(t, Ok)
                   /\ returned' = r.id
    /\ UNCHANGED <<rows, lastId, calls, assigned>>

\* -------------------------------------------------------- specification
\* One step of thread t while no storage fault occurs.
Step(t, budget, args) ==
    \/ CallItemsOfUser(t, args)
    \/ CallFindItemByUuid(t)
    \/ CallGetCurrentMaxId(t)
    \/ CallItemsInsert(t, budget)
    \/ LockDbRead(t)
    \/ ItemsOfUserLoad(t)
    \/ FindItemByUuidFirst(t)
    \/ GetCurrentMaxIdFirst(t)
    \/ ItemsInsertLoadOrig(t)
    \/ ItemsInsertLockWrite(t)
    \/ ItemsInsertDelete(t)
    \/ ItemsInsertInsert(t)
    \/ ItemsInsertFind(t)

\* A storage fault in the statement thread t is running.
Fault(t) ==
    \/ QueryFault(t)
    \/ ItemsInsertDeleteFault(t)
    \/ ItemsInsertInsertFault(t)

\* Any number of threads, any interleaving, storage faults included.
Next == \E t \in Threads : Step(t, MaxCalls, PageArgs) \/ Fault(t)

Spec == Init /\ [][Next]_vars

\* Any number of threads, any interleaving, while the store never fails.
NoFaultNext == \E t \in Threads : Step(t, MaxCalls, PageArgs)

NoFaultSpec == Init /\ [][NoFaultNext]_vars

\* The steps of thread t that wait for nothing: its statements on the store.
Statement(t) ==
    \/ ItemsOfUserLoad(t)
    \/ FindItemByUuidFirst(t)
    \/ GetCurrentMaxIdFirst(t)
    \/ ItemsInsertLoadOrig(t)
    \/ ItemsInsertDelete(t)
    \/ ItemsInsertInsert(t)
    \/ ItemsInsertFind(t)

\* The call thread t stands in after the step, if any, is for one key:
\* which rows a call touches has no part in who waits for whom.
LiveKey == <<1, "a">>
OneKey(t) ==
    \/ call'[t].op = "none"
    \/ /\ call'[t].op # "none"
       /\ call'[t].owner = LiveKey[1]
       /\ call'[t].op = "insert" => call'[t].it.uuid = LiveKey[2]
       /\ call'[t].op = "find" => call'[t].uuid = LiveKey[2]

LiveNext ==
    \E t \in Threads :
        (Step(t, MaxLiveCalls, PageArgs) \/ Fault(t)) /\ OneKey(t)

\* Threads that keep running and a lock that is granted fairly: a thread
\* standing at a statement executes it, and a thread waiting for the lock
\* gets it if the lock is free again and again.
LiveSpec ==
    /\ Init /\ [][LiveNext]_vars
    /\ \A t \in Threads :
         /\ WF_vars(Statement(t))
         /\ SF_vars(LockDbRead(t))
         /\ SF_vars(ItemsInsertLockWrite(t))

\* One caller running its calls one after another, without storage faults.
SeqCaller == "t1"
SeqNext == Step(SeqCaller, MaxSeqCalls, AnyArgs)

SeqSpec == Init /\ [][SeqNext]_vars

\* One caller running its calls one after another on a store that may fail.
SeqFaultNext ==
    Step(SeqCaller, MaxSeqCalls, PageArgs) \/ Fault(SeqCaller)

SeqFaultSpec == Init /\ [][SeqFaultNext]_vars

\* ================================================================ claims
Keys == Owners \X Uuids

\* Thread t's items_insert returns with success in this step.
InsertReturnsOk(t) ==
    pc[t] = "ins_find" /\ pc'[t] = "idle" /\ res'[t].tag = "Ok"

\* Thread t's items_insert completes its insert in this step.
InsertDone(t) == pc[t] = "ins_insert" /\ pc'[t] = "ins_find_lock"

\* C1: under any interleaving of concurrent items_insert calls the relation
\* holds at most one row per (owner, uuid).
C1_OneRowPerKey ==
    \A k \in Keys : Cardinality(Matching(rows, k[1], k[2])) <= 1

\* C2: from an upsert's existence check to its delete/insert no other
\* upsert's delete or insert takes effect: while a thread stands between the
\* two, the relation does not change.
C2_NoWriteBetweenCheckAndAct ==
    [][\A t \in Threads :
         (pc[t] = "ins_wlock" /\ pc'[t] = "ins_wlock") => rows' = rows]_vars

\* C3: the ids successful items_insert calls return are strictly increasing
\* in the order in which the calls complete.
C3_ReturnedIncreasing ==
    [][\A t \in Threads : InsertReturnsOk(t) => returned' > returned]_vars

\* C4: a successful items_insert returns the id of the row that this very
\* call inserted.
C4_ReturnsOwnRow ==
    [][\A t \in Threads :
         InsertReturnsOk(t) => returned' = Unwrap(mine[t]).id]_vars

\* C5: every inserted row carries an id strictly greater than every id ever
\* assigned before, whoever owns it and whether or not the row that carried
\* the largest earlier id still exists.
C5_MarkersNeverReused ==
    [][\A r \in rows' \ rows : \A m \in assigned : r.id > m]_vars

\* C5 witness: a row was inserted after the row with the previously largest
\* id had been deleted.
C5_Witness ==
    \E t \in Threads :
        /\ IsSome(mine[t])
        /\ Unwrap(mine[t]).id = lastId
        /\ lastId - 1 \in assigned
        /\ lastId - 1 \notin RowIds(rows)

\* C7: every stored tombstone has no content and no enc_item_key, whatever
\* the input carried, and a row that is no tombstone stores the input's
\* content and enc_item_key unchanged.
C7_TombstoneStripped ==
    /\ \A r \in rows : r.deleted => r.content = None /\ r.enc_item_key = None
    /\ \A t \in Threads :
         IsSome(mine[t]) =>
           LET r == Unwrap(mine[t])
               it == call[t].it
           IN /\ r.deleted = it.deleted
              /\ ~it.deleted =>
                   r.content = it.content /\ r.enc_item_key = it.enc_item_key

\* C7 witness: a tombstone is stored whose input carried content and key.
C7_Witness ==
    \E t \in Threads :
        /\ IsSome(mine[t])
        /\ Unwrap(mine[t]) \in rows
        /\ Unwrap(mine[t]).deleted
        /\ IsSome(call[t].it.content)
        /\ IsSome(call[t].it.enc_item_key)

\* C8: listing an owner's rows since the owner's current maximum id gives
\* nothing; once one upsert of that owner has written, listing since the
\* maximum taken before gives exactly the row that upsert inserted.
C8_CursorThenOneUpsert ==
    [][/\ \A o \in Owners :
            ItemsOfUser(rows', o, GetCurrentMaxId(rows', o), None, None) = <<>>
       /\ \A t \in Threads :
            InsertDone(t) =>
              LET o == call[t].owner
                  c == GetCurrentMaxId(snap, o)
              IN /\ ItemsOfUser(snap, o, c, None, None) = <<>>
                 /\ ItemsOfUser(rows', o, c, None, None) = <<Unwrap(mine'[t])>>
      ]_vars

\* C8 witness: an upsert has just replaced the existing row of an owner, and
\* the list since the maximum taken before it is the one row it inserted.
C8_Witness ==
    \E t \in Threads :
        /\ pc[t] = "ins_find_lock"
        /\ orig[t] # {}
        /\ LET o == call[t].owner
               before == (rows \ {Unwrap(mine[t])}) \cup orig[t]
           IN /\ IsSome(GetCurrentMaxId(before, o))
              /\ ItemsOfUser(rows, o, GetCurrentMaxId(before, o), None, None)
                   = <<Unwrap(mine[t])>>

\* Range of a sequence
Range(q) == {q[n] : n \in 1 .. Len(q)}

\* The rows a list call must draw from: the owner's, above since_id and up
\* to max_id where these are present.
Passing(db, c) ==
    {r \in db : /\ r.owner = c.owner
                /\ IsSome(c.since_id) => r.id > Unwrap(c.since_id)
                /\ IsSome(c.max_id) => r.id <= Unwrap(c.max_id)}

\* C6: when an upsert of a single caller returns (no storage fault), exactly
\* one row exists for its key, find_item_by_uuid gives that row, its id is
\* the one returned and exceeds the id every earlier upsert returned, and its
\* fields are the input's, content and enc_item_key absent for a tombstone.
C6_LastUpsertWins ==
    [][\A t \in Threads :
         (pc[t] = "ins_find" /\ pc'[t] = "idle") =>
           LET o == call[t].owner
               it == call[t].it
               live == Matching(rows', o, it.uuid)
           IN /\ res'[t].tag = "Ok"
              /\ Cardinality(live) = 1
              /\ FindItemByUuid(rows', o, it.uuid) = live
              /\ \A r \in live :
                   /\ r.id = returned'
                   /\ r.id > returned
                   /\ r.content = (IF it.deleted THEN None ELSE it.content)
                   /\ r.enc_item_key =
                        (IF it.deleted THEN None ELSE it.enc_item_key)
                   /\ r.deleted = it.deleted
                   /\ r.content_type = it.content_type
                   /\ r.created_at = it.created_at
                   /\ r.updated_at = it.updated_at]_vars

\* C6 witness: the caller has upserted one key three times, last as a
\* tombstone, and the key's only row is the one of the third upsert.
C6_Witness ==
    /\ pc[SeqCaller] = "idle"
    /\ returned = 3
    /\ \E r \in rows : rows = {r} /\ r.id = 3 /\ r.deleted

\* C9: a running list call loads only rows of its owner with id above
\* since_id and up to max_id where present; all of them when limit is
\* absent; and the empty sequence when there is none.
C9_ListFilters ==
    \A t \in Threads :
        pc[t] = "list_query" =>
          LET got == ItemsOfUserRows(t)
              pass == Passing(rows, call[t])
          IN /\ Range(got) \subseteq pass
             /\ call[t].limit = None =>
                  Range(got) = pass /\ Len(got) = Cardinality(pass)
             /\ pass = {} => got = <<>>

\* C9 witness: a list call with both bounds present and no limit is running
\* while its owner holds a row inside the window and one outside it, and
\* another owner holds a row too; it loads the one row inside.
C9_Witness ==
    \E t \in Threads :
        /\ pc[t] = "list_query"
        /\ call[t].since_id = Some(1)
        /\ call[t].max_id = Some(2)
        /\ call[t].limit = None
        /\ Cardinality(rows) = 3
        /\ Cardinality({r \in rows : r.owner = call[t].owner}) = 2
        /\ Len(ItemsOfUserRows(t)) = 1

\* C10: a running list call loads its rows in ascending order of id, and
\* with limit = n at most n of them: the n passing rows of smallest id.
C10_ListOrderedAndLimited ==
    \A t \in Threads :
        pc[t] = "list_query" =>
          LET got == ItemsOfUserRows(t)
              pass == Passing(rows, call[t])
          IN /\ \A m, n \in 1 .. Len(got) : m < n => got[m].id < got[n].id
             /\ IsSome(call[t].limit) =>
                  LET lim == Unwrap(call[t].limit)
                  IN /\ Len(got) <= lim
                     /\ Len(got) = IF Cardinality(pass) < lim
                                     THEN Cardinality(pass) ELSE lim
                     /\ Range(got) \subseteq pass
                     /\ \A r \in pass \ Range(got) :
                          \A g \in Range(got) : g.id < r.id

\* C10 witness: a list call with since_id and limit 1 is running on an owner
\* with two rows above since_id, so the limit cuts the larger one off.
C10_Witness ==
    \E t \in Threads :
        /\ pc[t] = "list_query"
        /\ call[t].since_id = Some(1)
        /\ call[t].limit = Some(1)
        /\ Cardinality(Passing(rows, call[t])) = 2
        /\ Len(ItemsOfUserRows(t)) = 1

\* A caller's paging loop: list with limit 1 from cursor s, hand the page on,
\* continue from the id of the row just returned, stop at the empty page.
\* `fuel` bounds the number of non-empty pages; done tells whether the empty
\* page was reached within it.
RECURSIVE Enumerate(_, _, _, _)
Enumerate(db, u, s, fuel) ==
    LET page == ItemsOfUser(db, u, s, None, Some(1))
    IN IF page = <<>> THEN [seen |-> <<>>, done |-> TRUE]
       ELSE IF fuel = 0 THEN [seen |-> <<>>, done |-> FALSE]
       ELSE LET rest == Enumerate(db, u, Some(page[Len(page)].id), fuel - 1)
            IN [seen |-> page \o rest.seen, done |-> rest.done]

\* C11: on a store no upsert is changing, the paging loop with limit 1 that
\* starts without since_id and continues from the id of the row just returned
\* reaches the empty page after as many rows as the owner has, and has then
\* returned every row of the owner exactly once, in ascending order of id.
C11_PagingEnumerates ==
    \A o \in Owners :
        LET own == {r \in rows : r.owner = o}
            e == Enumerate(rows, o, None, Cardinality(own))
        IN /\ e.done
           /\ Len(e.seen) = Cardinality(own)
           /\ Range(e.seen) = own
           /\ \A m, n \in 1 .. Len(e.seen) : m < n => e.seen[m].id < e.seen[n].id

\* C11 witness: the caller runs the loop's first call (no since_id, limit 1)
\* on an owner holding two rows beside another owner's row; the loop needs
\* two further calls.
C11_Witness ==
    /\ pc[SeqCaller] = "list_query"
    /\ call[SeqCaller].since_id = None
    /\ call[SeqCaller].max_id = None
    /\ call[SeqCaller].limit = Some(1)
    /\ Cardinality(rows) = 3
    /\ Len(Enumerate(rows, call[SeqCaller].owner, None, 3).seen) = 2
    /\ Len(ItemsOfUserRows(SeqCaller)) = 1

\* C12: what a running items_of_user or find_item_by_uuid call for an owner
\* gives, the find at the end of items_insert included, holds rows of that
\* owner only, also when another owner holds a row of the same uuid.
C12_OwnerIsolation ==
    \A t \in Threads :
        /\ pc[t] = "list_query" =>
             \A r \in Range(ItemsOfUserRows(t)) : r.owner = call[t].owner
        /\ pc[t] = "find_query" =>
             \A r \in FindItemByUuid(rows, call[t].owner, call[t].uuid) :
                 r.owner = call[t].owner
        /\ pc[t] = "ins_find" =>
             \A r \in FindItemByUuid(rows, call[t].owner, call[t].it.uuid) :
                 r.owner = call[t].owner

\* C12 witness: a find is running for a uuid of which both owners hold a
\* row, and it gives the caller's row.
C12_Witness ==
    \E t \in Threads :
        /\ pc[t] = "find_query"
        /\ \A o \in Owners : Matching(rows, o, call[t].uuid) # {}
        /\ FindItemByUuid(rows, call[t].owner, call[t].uuid) # {}

\* C13: when find_item_by_uuid runs on a store that holds no row for its
\* (owner, uuid) and no storage fault occurs, what it returns is not the
\* error a storage fault gives.
C13_NotFoundDistinct ==
    [][\A t \in Threads :
         (/\ pc[t] = "find_query"
          /\ pc'[t] = "idle"
          /\ FindItemByUuid(rows, call[t].owner, call[t].uuid) = {})
         => res'[t] # Err]_vars

\* C14: a storage fault inside items_insert ends the call with the error
\* and nothing else happens. When the delete fails no insert has been made
\* and the relation is the one the call found when it got the write lock.
\* When the insert fails the call has added no row; if its delete ran, its
\* key holds no row and every other row is as it was when the call got the
\* write lock.
C14_FaultInsideUpsert ==
    [][\A t \in Threads :
         LET key == Matching(snap, call[t].owner, call[t].it.uuid)
         IN /\ (pc[t] = "ins_delete" /\ pc'[t] = "idle") =>
                 /\ res'[t] = Err
                 /\ rows' = snap
                 /\ lastId' = lastId /\ assigned' = assigned
            /\ (pc[t] = "ins_insert" /\ pc'[t] = "idle") =>
                 /\ res'[t] = Err
                 /\ rows' = rows
                 /\ lastId' = lastId /\ assigned' = assigned
                 /\ orig[t] # {} =>
                      /\ Matching(rows', call[t].owner, call[t].it.uuid) = {}
                      /\ rows' = snap \ key]_vars

\* C14 witness: an upsert that replaced nothing but deleted the only row has
\* returned the error after its insert failed: the store is empty although
\* an id was assigned, and nobody is writing.
C14_Witness ==
    \E t \in Threads :
        /\ pc[t] = "idle"
        /\ res[t] = Err
        /\ rows = {}
        /\ lastId = 1
        /\ writer = None
        /\ \A u \in Threads : pc[u] \notin {"ins_delete", "ins_insert"}

\* The places where a thread stands right before a statement on the store.
AtStatement ==
    {"list_query", "find_query", "max_query", "ins_load", "ins_find",
     "ins_delete", "ins_insert"}

\* C15: while a thread holds the lock in write mode no thread holds it in
\* read mode and no other thread stands at a statement of its own; and
\* while the store never fails, a key loses its last row only to a writer
\* that keeps the lock, and when a writer gives the lock up every key that
\* had a row when it got the lock has one again: no read sees a key that
\* once had a row without any.
C15_WriteSectionExclusive ==
    [][/\ writer' # None =>
            /\ readers' = {}
            /\ \A u \in Threads \ {Unwrap(writer')} : pc'[u] \notin AtStatement
       /\ \A k \in Keys :
            (Matching(rows, k[1], k[2]) # {} /\ Matching(rows', k[1], k[2]) = {})
              => writer' # None
       /\ (writer # None /\ writer' = None) =>
            \A k \in Keys :
                Matching(snap, k[1], k[2]) # {} => Matching(rows', k[1], k[2]) # {}
      ]_vars

\* C15 witness: a writer has deleted the only row of its key and not yet
\* inserted the new one, while the other thread waits for the read lock to
\* find that very key.
C15_Witness ==
    \E t, u \in Threads :
        /\ writer = Some(t)
        /\ pc[t] = "ins_insert"
        /\ Matching(snap, call[t].owner, call[t].it.uuid) # {}
        /\ Matching(rows, call[t].owner, call[t].it.uuid) = {}
        /\ pc[u] = "find_lock"
        /\ call[u].owner = call[t].owner
        /\ call[u].uuid = call[t].it.uuid

\* C16: a thread that is not inside a call, whether it has not called yet
\* or its call returned with success or with the error, holds the lock in
\* neither mode.
C16_GuardReleasedOnReturn ==
    \A t \in Threads :
        pc[t] = "idle" => t \notin readers /\ writer # Some(t)

\* C16 witness: an upsert has deleted the only row and returned the error
\* from its failed insert (the store is empty although an id was assigned);
\* a thread has got the read lock since, and the other thread is idle.
C16_Witness ==
    \E t, u \in Threads :
        /\ rows = {}
        /\ lastId = 1
        /\ calls = 2
        /\ writer = None
        /\ pc[t] = "idle"
        /\ pc[u] = "find_query"
        /\ u \in readers

\* Thread t waits for the lock and cannot get it now.
Blocked(t) ==
    \/ pc[t] \in ReadLockPcs /\ ~CanRead
    \/ pc[t] = "ins_wlock" /\ ~CanWrite

\* A thread asking for the lock holds it in no mode.
NoSelfRequest ==
    \A t \in Threads :
        pc[t] \in ReadLockPcs \cup {"ins_wlock"} =>
            t \notin readers /\ writer # Some(t)

\* While calls are running, one of them can take its next step.
NoDeadlock ==
    (\E t \in Threads : pc[t] # "idle") =>
        \E t \in Threads : pc[t] # "idle" /\ ~Blocked(t)

\* C17: no thread asks for the lock while holding it, the running calls are
\* never all blocked, and with the lock granted fairly every call that was
\* started returns.
C17_NoDeadlockAllReturn ==
    /\ [](NoSelfRequest /\ NoDeadlock)
    /\ \A t \in Threads : (pc[t] # "idle") ~> (pc[t] = "idle")

\* C17 witness: one upsert holds the write lock while the other thread's
\* upsert, its first read done, waits for it.
C17_Witness ==
    \E t, u \in Threads :
        /\ writer = Some(t)
        /\ pc[u] = "ins_wlock"
        /\ Blocked(u)

\* The rows of db outside the key (u, i).
Others(db, u, i) == db \ Matching(db, u, i)

\* C18: no step of an items_insert call for (owner, uuid), up to and
\* including its return with success or with the error, changes, adds or
\* removes a row of another owner or of another uuid; a step outside
\* items_insert changes no row at all.
C18_UpsertFrame ==
    [][\A t \in Threads :
         pc'[t] # pc[t] =>
           IF call[t].op = "insert"
             THEN Others(rows', call[t].owner, call[t].it.uuid)
                    = Others(rows, call[t].owner, call[t].it.uuid)
             ELSE rows' = rows]_vars

\* C18 witness: the caller's third upsert has deleted the row of its key,
\* and the other owner's row of the same uuid is the one row left.
C18_Witness ==
    LET t == SeqCaller
    IN /\ pc[t] = "ins_insert"
       /\ orig[t] # {}
       /\ Cardinality(rows) = 1
       /\ Cardinality(snap) = 2
       /\ \E r \in rows : r.uuid = call[t].it.uuid /\ r.owner # call[t].owner

\* The rows of owner o in db whose id is at most c.
UpTo(db, o, c) == {r \in db : r.owner = o /\ r.id <= c}

\* C19: whatever id c has been in the store at any time up to now (so
\* whatever cursor a read may have given), no step adds a row of an owner
\* with id at most c, and a row a step adds for an owner is in the owner's
\* list since c, as it is in the list without since_id.
C19_NothingBehindCursor ==
    [][\A o \in Owners :
         /\ \A c \in assigned :
              /\ UpTo(rows', o, c) \subseteq UpTo(rows, o, c)
              /\ \A r \in rows' \ rows :
                   r.owner = o =>
                     /\ r.id > c
                     /\ r \in Range(ItemsOfUser(rows', o, Some(c), None, None))
         /\ \A r \in rows' \ rows :
              r.owner = o => r \in Range(ItemsOfUser(rows', o, None, None, None))
      ]_vars

\* C19 witness: an owner held the row of id 1; an upsert has inserted a
\* second row for that owner while another thread lists the owner's rows
\* since 1, and the list is that new row.
C19_Witness ==
    \E t, u \in Threads :
        /\ pc[t] = "ins_find_lock"
        /\ IsSome(mine[t])
        /\ pc[u] = "list_query"
        /\ call[u].owner = call[t].owner
        /\ call[u].since_id = Some(1)
        /\ \E r \in rows : r.id = 1 /\ r.owner = call[t].owner
        /\ ItemsOfUserRows(u) = <<Unwrap(mine[t])>>

\* An absent maximum is below every id.
AtLeast(a, b) == a = None \/ (IsSome(b) /\ Unwrap(b) >= Unwrap(a))

\* C20: get_current_max_id gives none for an owner without rows and else
\* the largest id among the owner's rows; and, the store never failing,
\* from one state in which reads can run to the next the value for an owner
\* does not decrease, nor turn from an id to none.
C20_MaxIsMaxAndMonotone ==
    [][\A o \in Owners :
         LET own == {r.id : r \in {q \in rows' : q.owner = o}}
             now == GetCurrentMaxId(rows', o)
             before == GetCurrentMaxId(IF writer = None THEN rows ELSE snap, o)
         IN /\ own = {} => now = None
            /\ own # {} =>
                 /\ IsSome(now)
                 /\ Unwrap(now) \in own
                 /\ \A i \in own : i <= Unwrap(now)
            /\ writer' = None => AtLeast(before, now)]_vars

\* C20 witness: get_current_max_id is running for an owner whose row of the
\* largest id has been replaced; it gives the id of the replacement while
\* the other owner holds no row.
C20_Witness ==
    \E t \in Threads :
        /\ pc[t] = "max_query"
        /\ rows # {}
        /\ \A r \in rows : r.owner = call[t].owner
        /\ GetCurrentMaxId(rows, call[t].owner) = Some(2)
        /\ 1 \notin RowIds(rows)
        /\ \E o \in Owners : GetCurrentMaxId(rows, o) = None

====
